---- MODULE Spec2Model ----
(***************************************************************************)
(* NetworkedImageTrackingSync (src/networking-local/server.js, l.61-657):  *)
(* every peer of a room runs one instance of the component.  A peer's      *)
(* handlers run to completion one at a time; the only suspension point is  *)
(* the `await loadAssetAsync()` of createTrackedObject.                    *)
(*                                                                         *)
(* Transport (external collaborator): connection.send(topic, msg) hands a  *)
(* copy of msg to every peer that is in the room, the sender included (the *)
(* handlers compare message.senderId with getLocalId(), l.394, 406, 430,   *)
(* 440, 528); copies are delivered at most once and in any order.          *)
(*                                                                         *)
(* Poses are one fixed-point coordinate; the rotation is handled by the    *)
(* code exactly as the position is, so it is not modelled separately.      *)
(***************************************************************************)
EXTENDS Integers, FiniteSets, Sequences, TLC

\* ------------------------------------------------------------------ bounds
MaxTicks == 1          \* clock advances at most this many times
MaxNet == 3            \* message copies in flight at once
MaxHandles == 2        \* host instances alive at once on one peer
MaxPending == 2        \* asset loads outstanding at once on one peer
MaxEvents == 3         \* detection events explored in a room
MaxStamps == 2         \* distinct later timestamps a received message may carry
MaxBurst == 3          \* Transform messages of one reordered burst

\* --------------------------------------------------------- program constants
updateInterval == 50
interpolationNum == 3
interpolationDen == 10

MSG_TRACKED_IMAGE_SPAWN == "tracked-image-spawn"
MSG_TRACKED_IMAGE_TRANSFORM == "tracked-image-transform"
MSG_TRACKED_IMAGE_DESPAWN == "tracked-image-despawn"
MSG_TRACKED_IMAGE_OWNERSHIP == "tracked-image-ownership"
MSG_TRACKED_IMAGE_STATE_REQUEST == "tracked-image-state-request"
MSG_TRACKED_IMAGE_STATE_RESPONSE == "tracked-image-state-response"
UserLeftRoom == "user-left-room"

\* ------------------------------------------------------------- the universe
Peers == {"A", "B", "C"}
Host == "A"                               \* the peer that opened the room
trackedImages == <<0, 1>>                 \* the configured marker models
Models == {trackedImages[i] : i \in DOMAIN trackedImages}
Poses == {10}                             \* relative poses a detection reports
InitialPos == 0                           \* local position of a fresh instance
TickStep == updateInterval
StartTime == 2 * updateInterval           \* Date.now() is far beyond updateInterval
MaxTime == StartTime + MaxTicks * TickStep
Handles == 1..MaxHandles

VARIABLES
    syncedObjects,   \* [peer -> Map imageId -> SyncedTrackedObject]   (l.172)
    scene,           \* [peer -> Map handle -> [imageId, pos]]: live host instances
    pending,         \* [peer -> set of spawn messages whose asset load is awaited]
    lastUpdateTime,  \* [peer -> throttle clock]                       (l.173)
    conn,            \* [peer -> "absent" | "idle" | "inRoom" | "left"]: never comes,
                     \* not yet in the room, in the room, gone
    markers,         \* the marker models physically present where the peers are
    imageTracking,   \* [peer -> BOOLEAN]  imageTracking reference set (l.147)
    sandboxRoot,     \* [peer -> BOOLEAN]  sandboxRoot reference set   (l.154)
    hasPlaced,       \* [peer -> BOOLEAN]  WebARSessionRoot.hasPlaced
    assets,          \* [peer -> [asset index -> "ok" | "none" | "null" | "throws"]]:
                     \* trackedImages[i].object and what its loadAssetAsync() yields
    lifecycle,       \* [peer -> "enabled" | "disabled" | "destroyed"]: the component
                     \* between onEnable and onDisable, after onDisable, after onDestroy
    net,             \* message copies in flight
    now,             \* Date.now()
    events,          \* detection events the model still explores
    last             \* the handler that ran last, with the peer's state before it

vars == <<syncedObjects, scene, pending, lastUpdateTime, conn, imageTracking,
          sandboxRoot, hasPlaced, assets, markers, lifecycle, net, now, events, last>>

\* what no handler of the protocol changes
config == <<imageTracking, sandboxRoot, hasPlaced, assets, markers, lifecycle>>

\* ------------------------------------------------------------------ helpers
SetToSeq(S) == CHOOSE s \in [1..Cardinality(S) -> S] : \A x \in S : \E i \in DOMAIN s : s[i] = x

MapSet(map, k, v) == [x \in (DOMAIN map) \cup {k} |-> IF x = k THEN v ELSE map[x]]

MapDelete(map, k) == [x \in (DOMAIN map) \ {k} |-> map[x]]

EmptyMap == [x \in {} |-> 0]

getLocalId(p) == p

canSync(p) ==
    /\ conn[p] = "inRoom"
    /\ sandboxRoot[p]
    /\ hasPlaced[p]

IndexOf(model) ==
    IF model \in Models
    THEN (CHOOSE i \in DOMAIN trackedImages : trackedImages[i] = model) - 1
    ELSE -1

getAssetIndex(p, image) == IF imageTracking[p] THEN IndexOf(image.model) ELSE -1

getImageId(p, image) == <<"tracked_image", getAssetIndex(p, image)>>

AssetIndices == {i - 1 : i \in DOMAIN trackedImages}

ImageIds == {<<"tracked_image", i - 1>> : i \in DOMAIN trackedImages}

calculateRelativeTransform(p, image) ==
    IF sandboxRoot[p] THEN {image.pos} ELSE {}

calculateRelativeTransformFromObject(p, object) ==
    IF sandboxRoot[p] THEN {scene[p][object].pos} ELSE {}

\* position.lerp(target, interpolationFactor), in fixed point
Lerp(pos, target) == pos + ((target - pos) * interpolationNum) \div interpolationDen

\* the scene after applyRelativeTransform(object, relativePos, ...) on peer p
applyRelativeTransform(p, scn, object, relativePos) ==
    IF ~sandboxRoot[p] THEN scn
    ELSE [scn EXCEPT ![object].pos = Lerp(@, relativePos)]

\* ----------------------------------------------------------------- messages
Message(type, sender, id, asset, pos, ts, action, target, owner) ==
    [type |-> type, to |-> "", senderId |-> sender, imageId |-> id,
     assetIndex |-> asset, relativePosition |-> pos, timestamp |-> ts,
     action |-> action, targetId |-> target, ownerId |-> owner]

NoId == <<"tracked_image", -2>>

InRoom == {q \in Peers : conn[q] = "inRoom"}

\* connection.send(topic, message): one copy per peer in the room
Copies(msgs) == {[m EXCEPT !.to = q] : m \in msgs, q \in InRoom}

\* at-most-once delivery: a copy that is never delivered is a lost one; the
\* model holds at most MaxNet copies in flight and loses what does not fit
Min(a, b) == IF a <= b THEN a ELSE b

Transport(kept, copies) ==
    UNION {{kept \cup S : S \in {T \in SUBSET c :
                Cardinality(kept \cup T) = Min(MaxNet, Cardinality(kept \cup c))}}
           : c \in {copies}}

\* what the handler `op` of peer p saw (message, registry, scene, pending loads,
\* throttle clock; `images` is the detail of a detection event) and the messages
\* it handed to connection.send, in order
Snapshot(op, p, m, out) ==
    [op |-> op, peer |-> p, msg |-> m, reg |-> syncedObjects[p], scn |-> scene[p],
     pend |-> pending[p], lut |-> lastUpdateTime[p], images |-> {}, sent |-> out]

NoMsg == Message("", "", NoId, -1, 0, 0, "", "", "")

\* --------------------------------------------------------------------- Init
\* the rooms explored: who may join the host, and which markers are around
Rooms == {[guests |-> {"B"}, markers |-> {trackedImages[1]}, events |-> MaxEvents - 1],
          [guests |-> {}, markers |-> Models, events |-> MaxEvents]}

NoHandler == [op |-> "init", peer |-> "", msg |-> NoMsg, reg |-> EmptyMap,
              scn |-> EmptyMap, pend |-> {}, lut |-> 0, images |-> {}, sent |-> <<>>]

\* every peer's component is configured, placed and has its assets
Configured ==
    /\ imageTracking = [p \in Peers |-> TRUE]
    /\ sandboxRoot = [p \in Peers |-> TRUE]
    /\ hasPlaced = [p \in Peers |-> TRUE]
    /\ assets = [p \in Peers |-> [i \in AssetIndices |-> "ok"]]
    /\ lifecycle = [p \in Peers |-> "enabled"]

Fresh ==
    /\ syncedObjects = [p \in Peers |-> EmptyMap]
    /\ scene = [p \in Peers |-> EmptyMap]
    /\ pending = [p \in Peers |-> {}]
    /\ lastUpdateTime = [p \in Peers |-> 0]
    /\ Configured
    /\ net = {}
    /\ now = StartTime
    /\ last = NoHandler

Init ==
    /\ Fresh
    /\ \E room \in Rooms :
          /\ markers = room.markers
          /\ events = room.events
          /\ conn = [p \in Peers |-> IF p = Host THEN "inRoom"
                                     ELSE IF p \in room.guests THEN "idle" ELSE "absent"]

Range(s) == {s[i] : i \in DOMAIN s}

RECURSIVE Concat(_)
Concat(ss) == IF ss = <<>> THEN <<>> ELSE Head(ss) \o Concat(Tail(ss))

\* ------------------------------------------------------------------ senders
sendSpawnMessage(p, imageId, assetIndex, transform) ==
    Message(MSG_TRACKED_IMAGE_SPAWN, getLocalId(p), imageId, assetIndex, transform,
            now', "", "", "")

sendTransformMessage(p, imageId, transform) ==
    Message(MSG_TRACKED_IMAGE_TRANSFORM, getLocalId(p), imageId, -1, transform,
            now', "", "", "")

sendDespawnMessage(p, imageId) ==
    Message(MSG_TRACKED_IMAGE_DESPAWN, getLocalId(p), imageId, -1, 0, now', "", "", "")

requestOwnership(p, imageId) ==
    Message(MSG_TRACKED_IMAGE_OWNERSHIP, getLocalId(p), imageId, -1, 0, now',
            "request", "", "")

releaseOwnership(p, imageId) ==
    Message(MSG_TRACKED_IMAGE_OWNERSHIP, getLocalId(p), imageId, -1, 0, now',
            "release", "", "")

\* --------------------------------------------------------- object management
\* removeTrackedObject on the pair st = [reg, scn] of one peer
removeTrackedObject(st, imageId) ==
    IF imageId \notin DOMAIN st.reg THEN st
    ELSE [reg |-> MapDelete(st.reg, imageId),
          scn |-> MapDelete(st.scn, st.reg[imageId].object)]

RECURSIVE RemoveAll(_, _)
RemoveAll(st, ids) ==
    IF ids = <<>> THEN st ELSE RemoveAll(removeTrackedObject(st, Head(ids)), Tail(ids))

\* createTrackedObject up to its await: does the call start an asset load?
StartsLoad(p, message) ==
    /\ imageTracking[p]
    /\ message.assetIndex \in AssetIndices
    /\ assets[p][message.assetIndex] # "none"

\* the argument of a createTrackedObject call, and the handler that made it
SpawnOf(message) ==
    [origin |-> message.type, senderId |-> message.senderId, imageId |-> message.imageId,
     assetIndex |-> message.assetIndex, relativePosition |-> message.relativePosition,
     timestamp |-> message.timestamp]

createTrackedObject(p, message) ==
    IF StartsLoad(p, message) THEN pending[p] \cup {SpawnOf(message)} ELSE pending[p]

\* ------------------------------------------------------ the detection handler
\* the throttle test always passing (l.278 without its comparison)
shouldSendUpdateAlways(p) == TRUE

shouldSendUpdate(p) == (now' - lastUpdateTime[p]) >= updateInterval

ImageMessages(p, image) ==
    LET imageId == getImageId(p, image)
        assetIndex == getAssetIndex(p, image)
        relativeTransform == calculateRelativeTransform(p, image)
        reg == syncedObjects[p]
    IN  IF relativeTransform = {} THEN <<>>
        ELSE LET t == CHOOSE x \in relativeTransform : TRUE IN
             IF imageId \notin DOMAIN reg
             THEN <<sendSpawnMessage(p, imageId, assetIndex, t)>>
             ELSE IF reg[imageId].isLocallyTracked /\ shouldSendUpdate(p)
             THEN <<sendTransformMessage(p, imageId, t)>>
             ELSE IF ~reg[imageId].isLocallyTracked /\ reg[imageId].ownerId # getLocalId(p)
             THEN <<requestOwnership(p, imageId)>>
             ELSE <<>>

ImagesMessages(p, imgs) == Concat([i \in DOMAIN imgs |-> ImageMessages(p, imgs[i])])

LostIdsAnyRecord(p, currentImages) ==
    LET currentIds == {getImageId(p, img) : img \in currentImages}
    IN  {imageId \in DOMAIN syncedObjects[p] : imageId \notin currentIds}

LostIds(p, currentImages) ==
    LET currentIds == {getImageId(p, img) : img \in currentImages}
    IN  {imageId \in DOMAIN syncedObjects[p] :
            syncedObjects[p][imageId].isLocallyTracked /\ imageId \notin currentIds}

checkForLostTracking(p, currentImages) ==
    LET lost == SetToSeq(LostIds(p, currentImages))
    IN  [sent |-> Concat([i \in DOMAIN lost |->
                     <<releaseOwnership(p, lost[i]), sendDespawnMessage(p, lost[i])>>]),
         st |-> RemoveAll([reg |-> syncedObjects[p], scn |-> scene[p]], lost)]

\* a detection event: at most one image per configured marker
Batches == {b \in SUBSET [model : markers, pos : Poses] :
               \A x, y \in b : x.model = y.model => x = y}

\* Date.now() as a handler reads it: the clock has stood still or moved on since
\* the last reading (now is the last reading, now' this one)
ReadClock == now' \in {t \in {now, now + TickStep} : t <= MaxTime}

onImageTrackingUpdate(p, images) ==
    /\ conn[p] \in {"idle", "inRoom"}
    /\ lifecycle[p] = "enabled"
    /\ imageTracking[p]
    /\ IF ~canSync(p) \/ images = {}
       THEN /\ last' = [Snapshot("image-tracking", p, NoMsg, <<>>) EXCEPT !.images = images]
            /\ UNCHANGED <<syncedObjects, scene, pending, lastUpdateTime, conn, config,
                           net, now, events>>
       ELSE /\ events > 0
            /\ events' = events - 1
            /\ ReadClock
            /\ \E lost \in {checkForLostTracking(p, images)} :
               \E out \in {ImagesMessages(p, SetToSeq(images)) \o lost.sent} :
                   /\ lastUpdateTime' =
                        IF shouldSendUpdate(p) THEN [lastUpdateTime EXCEPT ![p] = now']
                        ELSE lastUpdateTime
                   /\ syncedObjects' = [syncedObjects EXCEPT ![p] = lost.st.reg]
                   /\ scene' = [scene EXCEPT ![p] = lost.st.scn]
                   /\ net' \in Transport(net, Copies(Range(out)))
                   /\ last' = [Snapshot("image-tracking", p, NoMsg, out)
                                 EXCEPT !.images = images]
            /\ UNCHANGED <<pending, conn, config>>

\* ---------------------------------------------------------------- receivers
\* the transport hands copy m to the handler subscribed to its topic on peer p
Delivered(p, m, topic) ==
    /\ m \in net
    /\ m.to = p
    /\ m.type = topic
    /\ conn[p] = "inRoom"
    /\ lifecycle[p] = "enabled"

\* the ownership correction taken for a Spawn that is not older (l.391 with <=)
adoptsSenderNotNewer(data, message) == message.timestamp <= data.lastUpdate

\* the test of the ownership correction of onReceiveSpawn (l.391)
adoptsSender(data, message) == message.timestamp < data.lastUpdate

onReceiveSpawn(p, message) ==
    /\ Delivered(p, message, MSG_TRACKED_IMAGE_SPAWN)
    /\ LET reg == syncedObjects[p]
           known == message.imageId \in DOMAIN reg
       IN  /\ known \/ Cardinality(createTrackedObject(p, message)) <= MaxPending
           /\ syncedObjects' =
                IF known /\ adoptsSender(reg[message.imageId], message)
                THEN [syncedObjects EXCEPT ![p][message.imageId] =
                         [@ EXCEPT !.ownerId = message.senderId,
                                   !.isLocallyTracked = (message.senderId = getLocalId(p))]]
                ELSE syncedObjects
           /\ pending' =
                IF known THEN pending
                ELSE [pending EXCEPT ![p] = createTrackedObject(p, message)]
    /\ net' = net \ {message}
    /\ last' = Snapshot("spawn", p, message, <<>>)
    /\ UNCHANGED <<scene, lastUpdateTime, conn, config, now, events>>

\* onReceiveTransform without its timestamp test (l.407)
dropsTransformAnyAge(p, reg, message) ==
    \/ message.imageId \notin DOMAIN reg
    \/ message.senderId # reg[message.imageId].ownerId
    \/ (message.senderId = getLocalId(p) /\ reg[message.imageId].isLocallyTracked)

\* onReceiveTransform without its owner test (l.405)
dropsTransformAnyOwner(p, reg, message) ==
    \/ message.imageId \notin DOMAIN reg
    \/ (message.senderId = getLocalId(p) /\ reg[message.imageId].isLocallyTracked)
    \/ message.timestamp < reg[message.imageId].lastUpdate

\* the early returns of onReceiveTransform (l.404-407)
dropsTransform(p, reg, message) ==
    \/ message.imageId \notin DOMAIN reg
    \/ message.senderId # reg[message.imageId].ownerId
    \/ (message.senderId = getLocalId(p) /\ reg[message.imageId].isLocallyTracked)
    \/ message.timestamp < reg[message.imageId].lastUpdate

onReceiveTransform(p, message) ==
    /\ Delivered(p, message, MSG_TRACKED_IMAGE_TRANSFORM)
    /\ LET reg == syncedObjects[p]
           id == message.imageId
       IN  IF dropsTransform(p, reg, message)
           THEN UNCHANGED <<syncedObjects, scene>>
           ELSE /\ scene' = [scene EXCEPT ![p] =
                       applyRelativeTransform(p, @, reg[id].object, message.relativePosition)]
                /\ syncedObjects' = [syncedObjects EXCEPT ![p][id].lastUpdate = message.timestamp]
    /\ net' = net \ {message}
    /\ last' = Snapshot("transform", p, message, <<>>)
    /\ UNCHANGED <<pending, lastUpdateTime, conn, config, now, events>>

\* onReceiveDespawn without its sender test (l.418)
dropsDespawnUnknownOnly(reg, message) == message.imageId \notin DOMAIN reg

\* the early returns of onReceiveDespawn (l.417-418)
dropsDespawn(reg, message) ==
    \/ message.imageId \notin DOMAIN reg
    \/ message.senderId # reg[message.imageId].ownerId

onReceiveDespawn(p, message) ==
    /\ Delivered(p, message, MSG_TRACKED_IMAGE_DESPAWN)
    /\ LET reg == syncedObjects[p]
           id == message.imageId
           st == IF dropsDespawn(reg, message)
                 THEN [reg |-> reg, scn |-> scene[p]]
                 ELSE removeTrackedObject([reg |-> reg, scn |-> scene[p]], id)
       IN  /\ syncedObjects' = [syncedObjects EXCEPT ![p] = st.reg]
           /\ scene' = [scene EXCEPT ![p] = st.scn]
    /\ net' = net \ {message}
    /\ last' = Snapshot("despawn", p, message, <<>>)
    /\ UNCHANGED <<pending, lastUpdateTime, conn, config, now, events>>

\* the request branch granting whoever asks (l.428 without its test)
grantsRequestAlways(p, data) == TRUE

\* the test of the request branch (l.428)
grantsRequest(p, data) == ~data.isLocallyTracked \/ data.ownerId # getLocalId(p)

\* the release branch clearing for any sender (l.433 without its test)
clearsOnReleaseAlways(data, message) == TRUE

\* the test of the release branch (l.433)
clearsOnRelease(data, message) == data.ownerId = message.senderId

onReceiveOwnership(p, message) ==
    /\ Delivered(p, message, MSG_TRACKED_IMAGE_OWNERSHIP)
    /\ LET reg == syncedObjects[p]
           id == message.imageId
       IN  syncedObjects' =
             IF id \notin DOMAIN reg THEN syncedObjects
             ELSE IF message.action = "request"
             THEN IF grantsRequest(p, reg[id])
                  THEN [syncedObjects EXCEPT ![p][id] =
                           [@ EXCEPT !.ownerId = message.senderId,
                                     !.isLocallyTracked = (message.senderId = getLocalId(p))]]
                  ELSE syncedObjects
             ELSE IF message.action = "release"
             THEN IF clearsOnRelease(reg[id], message)
                  THEN [syncedObjects EXCEPT ![p][id].ownerId = ""]
                  ELSE syncedObjects
             ELSE syncedObjects
    /\ net' = net \ {message}
    /\ last' = Snapshot("ownership", p, message, <<>>)
    /\ UNCHANGED <<scene, pending, lastUpdateTime, conn, config, now, events>>

StateResponses(p, message) ==
    LET reg == syncedObjects[p]
        ids == SetToSeq(DOMAIN reg)
        One(imageId) ==
            LET data == reg[imageId]
                transform == calculateRelativeTransformFromObject(p, data.object)
            IN  IF data.isLocallyTracked /\ transform # {}
                THEN <<Message(MSG_TRACKED_IMAGE_STATE_RESPONSE, "", imageId,
                               data.assetIndex, CHOOSE x \in transform : TRUE, now',
                               "", message.senderId, data.ownerId)>>
                ELSE <<>>
    IN  Concat([i \in DOMAIN ids |-> One(ids[i])])

onReceiveStateRequest(p, message) ==
    /\ Delivered(p, message, MSG_TRACKED_IMAGE_STATE_REQUEST)
    /\ IF message.senderId = getLocalId(p) \/ ~sandboxRoot[p]
          \/ \A id \in DOMAIN syncedObjects[p] : ~syncedObjects[p][id].isLocallyTracked
       THEN UNCHANGED now
       ELSE ReadClock
    /\ \E out \in {IF message.senderId = getLocalId(p) THEN <<>>
                    ELSE StateResponses(p, message)} :
           /\ net' \in Transport(net \ {message}, Copies(Range(out)))
           /\ last' = Snapshot("state-request", p, message, out)
    /\ UNCHANGED <<syncedObjects, scene, pending, lastUpdateTime, conn, config, events>>

addressedElsewhereNever(p, message) == FALSE

\* the early return of onReceiveStateResponse
addressedElsewhere(p, message) ==
    message.targetId # "" /\ message.targetId # getLocalId(p)

onReceiveStateResponse(p, message) ==
    /\ Delivered(p, message, MSG_TRACKED_IMAGE_STATE_RESPONSE)
    /\ LET spawn == [message EXCEPT !.senderId = message.ownerId]
           creates == /\ ~addressedElsewhere(p, message)
                      /\ message.imageId \notin DOMAIN syncedObjects[p]
       IN  /\ ~creates \/ Cardinality(createTrackedObject(p, spawn)) <= MaxPending
           /\ pending' = IF creates
                         THEN [pending EXCEPT ![p] = createTrackedObject(p, spawn)]
                         ELSE pending
    /\ net' = net \ {message}
    /\ last' = Snapshot("state-response", p, message, <<>>)
    /\ UNCHANGED <<syncedObjects, scene, lastUpdateTime, conn, config, now, events>>

loadYieldsAlways(p, message) == TRUE

\* loadAssetAsync resolved to an asset: it neither threw nor gave null
loadYields(p, message) == assets[p][message.assetIndex] = "ok"

\* createTrackedObject after its await: the load of `message` has settled
LoadComplete(p, message) ==
    /\ conn[p] # "left"
    /\ message \in pending[p]
    /\ pending' = [pending EXCEPT ![p] = @ \ {message}]
    /\ IF ~loadYields(p, message)
       THEN UNCHANGED <<syncedObjects, scene>>
       ELSE /\ \E h \in Handles : h \notin DOMAIN scene[p]
            /\ LET instance == CHOOSE h \in Handles :
                                  /\ h \notin DOMAIN scene[p]
                                  /\ \A g \in Handles : g \notin DOMAIN scene[p] => h <= g
                   placed == MapSet(scene[p], instance,
                                    [imageId |-> message.imageId, pos |-> InitialPos])
               IN  /\ scene' = [scene EXCEPT ![p] =
                          applyRelativeTransform(p, placed, instance, message.relativePosition)]
                   /\ syncedObjects' = [syncedObjects EXCEPT ![p] =
                          MapSet(@, message.imageId,
                                 [object |-> instance,
                                  ownerId |-> message.senderId,
                                  assetIndex |-> message.assetIndex,
                                  lastUpdate |-> message.timestamp,
                                  isLocallyTracked |-> (message.senderId = getLocalId(p))])]
    /\ last' = Snapshot("load", p,
                        Message("load", message.senderId, message.imageId, message.assetIndex,
                                message.relativePosition, message.timestamp, message.origin,
                                "", ""), <<>>)
    /\ UNCHANGED <<lastUpdateTime, conn, config, net, now, events>>

\* --------------------------------------------------------- room membership
\* peer p enters the room and handles its own JoinedRoom event
onUserJoined(p) ==
    /\ conn[p] = "idle"
    /\ lifecycle[p] = "enabled"
    /\ conn' = [conn EXCEPT ![p] = "inRoom"]
    /\ LET request == Message(MSG_TRACKED_IMAGE_STATE_REQUEST, getLocalId(p), NoId, -1, 0, 0,
                              "", "", "")
           copies == {[request EXCEPT !.to = q] : q \in InRoom \cup {p}}
       IN  /\ net' \in Transport(net, copies)
           /\ last' = Snapshot("joined", p, NoMsg, <<request>>)
    /\ UNCHANGED <<syncedObjects, scene, pending, lastUpdateTime, config, now, events>>

\* peer p drops out of the room while others remain: its component runs no
\* handler any more (its state stays as it was), the copies addressed to it are
\* gone, and the room notifies the peers that remain
Leave(p) ==
    /\ conn[p] = "inRoom"
    /\ InRoom # {p}
    /\ conn' = [conn EXCEPT ![p] = "left"]
    /\ LET notice == Message(UserLeftRoom, p, NoId, -1, 0, 0, "", "", "")
           copies == {[notice EXCEPT !.to = q] : q \in InRoom \ {p}}
       IN  net' \in Transport({m \in net : m.to # p}, copies)
    /\ last' = Snapshot("leave", p, NoMsg, <<>>)
    /\ UNCHANGED <<syncedObjects, scene, pending, lastUpdateTime, config, now, events>>

onUserLeft(p, data) ==
    /\ Delivered(p, data, UserLeftRoom)
    /\ LET reg == syncedObjects[p]
           owned == SetToSeq({imageId \in DOMAIN reg : reg[imageId].ownerId = data.senderId})
           st == RemoveAll([reg |-> reg, scn |-> scene[p]], owned)
       IN  /\ syncedObjects' = [syncedObjects EXCEPT ![p] = st.reg]
           /\ scene' = [scene EXCEPT ![p] = st.scn]
    /\ net' = net \ {data}
    /\ last' = Snapshot("user-left", p, data, <<>>)
    /\ UNCHANGED <<pending, lastUpdateTime, conn, config, now, events>>

\* ------------------------------------------------------------- lifecycle
onEnable(p) ==
    /\ lifecycle[p] = "disabled"
    /\ lifecycle' = [lifecycle EXCEPT ![p] = "enabled"]
    /\ last' = Snapshot("enable", p, NoMsg, <<>>)
    /\ UNCHANGED <<syncedObjects, scene, pending, lastUpdateTime, conn, imageTracking,
                   sandboxRoot, hasPlaced, assets, markers, net, now, events>>

\* the removeEventListener / stopListen calls of onDisable, as an entry of the
\* sequence of calls the handler made
StopListen == Message("stop-listen", "", NoId, -1, 0, 0, "", "", "")

despawnAllLocallyTracked(p) ==
    LET ids == SetToSeq({imageId \in DOMAIN syncedObjects[p] :
                            syncedObjects[p][imageId].isLocallyTracked})
    IN  Concat([i \in DOMAIN ids |-> <<sendDespawnMessage(p, ids[i])>>])

onDisable(p) ==
    /\ lifecycle[p] = "enabled"
    /\ lifecycle' = [lifecycle EXCEPT ![p] = "disabled"]
    /\ IF \A id \in DOMAIN syncedObjects[p] : ~syncedObjects[p][id].isLocallyTracked
       THEN UNCHANGED now
       ELSE ReadClock
    /\ \E out \in {despawnAllLocallyTracked(p)} :
          /\ net' \in Transport(net, Copies(Range(out)))
          /\ last' = Snapshot("disable", p, NoMsg, <<StopListen>> \o out)
    /\ UNCHANGED <<syncedObjects, scene, pending, lastUpdateTime, conn, imageTracking,
                   sandboxRoot, hasPlaced, assets, markers, events>>

onDestroy(p) ==
    /\ lifecycle[p] = "disabled"
    /\ lifecycle' = [lifecycle EXCEPT ![p] = "destroyed"]
    /\ scene' = [scene EXCEPT ![p] =
            [h \in DOMAIN @ \ {syncedObjects[p][id].object : id \in DOMAIN syncedObjects[p]}
                |-> @[h]]]
    /\ syncedObjects' = [syncedObjects EXCEPT ![p] = EmptyMap]
    /\ last' = Snapshot("destroy", p, NoMsg, <<>>)
    /\ UNCHANGED <<pending, lastUpdateTime, conn, imageTracking, sandboxRoot, hasPlaced,
                   assets, markers, net, now, events>>

\* --------------------------------------------------------------------- Next
Next ==
    \/ \E p \in Peers : onUserJoined(p)
    \/ \E p \in Peers : Leave(p)
    \/ \E p \in Peers : \E images \in Batches : onImageTrackingUpdate(p, images)
    \/ \E p \in Peers : \E m \in net : onReceiveSpawn(p, m)
    \/ \E p \in Peers : \E m \in net : onReceiveTransform(p, m)
    \/ \E p \in Peers : \E m \in net : onReceiveDespawn(p, m)
    \/ \E p \in Peers : \E m \in net : onReceiveOwnership(p, m)
    \/ \E p \in Peers : \E m \in net : onReceiveStateRequest(p, m)
    \/ \E p \in Peers : \E m \in net : onReceiveStateResponse(p, m)
    \/ \E p \in Peers : \E m \in net : onUserLeft(p, m)
    \/ \E p \in Peers : \E m \in pending[p] : LoadComplete(p, m)

Spec == Init /\ [][Next]_vars

Registered(p, id) == id \in DOMAIN syncedObjects[p]

Drives(p, id) == Registered(p, id) /\ syncedObjects[p][id].isLocallyTracked

\* ------------------------------------------ one peer, one incoming message
\* SpecHandler: a peer whose registry holds nothing or one entity, in any of
\* the states the protocol leaves a record in, is handed any one message.
Stamps == {StartTime + k * TickStep : k \in 0..MaxStamps}

Entity == <<"tracked_image", 0>>

\* positions of an instance after its creation and after one more update
KnownPositions == UNION {{Lerp(InitialPos, q), Lerp(Lerp(InitialPos, q), q)} : q \in Poses}

EntityStates(p) ==
    {[reg |-> EmptyMap, scn |-> EmptyMap]} \cup
    {[reg |-> (Entity :> [object |-> 1, ownerId |-> ol[1], assetIndex |-> Entity[2],
                          lastUpdate |-> t, isLocallyTracked |-> ol[2]]),
      scn |-> (1 :> [imageId |-> Entity, pos |-> x])] :
        t \in Stamps, x \in KnownPositions,
        ol \in {c \in (Peers \cup {""}) \X BOOLEAN : c[2] => c[1] \in {getLocalId(p), ""}}}

Incoming ==
    {Message(MSG_TRACKED_IMAGE_SPAWN, s, id, id[2], x, t, "", "", "") :
        s \in Peers, id \in ImageIds, x \in Poses, t \in Stamps} \cup
    {Message(MSG_TRACKED_IMAGE_TRANSFORM, s, id, -1, x, t, "", "", "") :
        s \in Peers, id \in ImageIds, x \in Poses, t \in Stamps} \cup
    {Message(MSG_TRACKED_IMAGE_DESPAWN, s, id, -1, 0, t, "", "", "") :
        s \in Peers, id \in ImageIds, t \in Stamps} \cup
    {Message(MSG_TRACKED_IMAGE_OWNERSHIP, s, id, -1, 0, t, a, "", "") :
        s \in Peers, id \in ImageIds, t \in Stamps, a \in {"request", "release"}} \cup
    {Message(MSG_TRACKED_IMAGE_STATE_RESPONSE, "", id, id[2], x, t, "", g, o) :
        id \in ImageIds, x \in Poses, t \in Stamps,
        g \in Peers \cup {""}, o \in Peers \cup {""}} \cup
    {Message(MSG_TRACKED_IMAGE_STATE_REQUEST, s, NoId, -1, 0, 0, "", "", "") : s \in Peers} \cup
    {Message(UserLeftRoom, s, NoId, -1, 0, 0, "", "", "") : s \in Peers}

HandlerInit ==
    /\ Configured
    /\ pending = [p \in Peers |-> {}]
    /\ lastUpdateTime = [p \in Peers |-> 0]
    /\ conn = [p \in Peers |-> "inRoom"]
    /\ markers = {}
    /\ events = 0
    /\ now = StartTime
    /\ last = NoHandler
    /\ \E p \in Peers : \E st \in EntityStates(p) : \E m \in Incoming :
          /\ syncedObjects = [q \in Peers |-> IF q = p THEN st.reg ELSE EmptyMap]
          /\ scene = [q \in Peers |-> IF q = p THEN st.scn ELSE EmptyMap]
          /\ net = {[m EXCEPT !.to = p]}

NextHandler ==
    \/ \E p \in Peers : \E m \in net : onReceiveSpawn(p, m)
    \/ \E p \in Peers : \E m \in net : onReceiveTransform(p, m)
    \/ \E p \in Peers : \E m \in net : onReceiveDespawn(p, m)
    \/ \E p \in Peers : \E m \in net : onReceiveOwnership(p, m)
    \/ \E p \in Peers : \E m \in net : onReceiveStateRequest(p, m)
    \/ \E p \in Peers : \E m \in net : onReceiveStateResponse(p, m)
    \/ \E p \in Peers : \E m \in net : onUserLeft(p, m)
    \/ \E p \in Peers : \E m \in pending[p] : LoadComplete(p, m)

SpecHandler == HandlerInit /\ [][NextHandler]_vars

\* ------------------------------------------------- a reordered burst
\* SpecReorder: peer p holds Entity as the Spawn of owner o created it; a burst
\* of Transform messages was sent to the room and is delivered to p in any
\* order.  The copies of the same sends addressed to the other peer stay in
\* flight, so the state keeps what was sent.
Other(p) == CHOOSE q \in Peers : q # p

Bursts ==
    {T \in SUBSET {Message(MSG_TRACKED_IMAGE_TRANSFORM, s, Entity, -1, x, t, "", "", "") :
                       s \in Peers, x \in Poses, t \in Stamps} :
        /\ T # {}
        /\ Cardinality(T) <= MaxBurst
        /\ \A m1, m2 \in T :
              (m1.senderId = m2.senderId /\ m1.timestamp = m2.timestamp) => m1 = m2}

ReorderInit ==
    /\ Configured
    /\ pending = [p \in Peers |-> {}]
    /\ lastUpdateTime = [p \in Peers |-> 0]
    /\ conn = [p \in Peers |-> "inRoom"]
    /\ markers = {}
    /\ events = 0
    /\ now = StartTime
    /\ last = NoHandler
    /\ \E p \in Peers : \E o \in Peers : \E t \in Stamps : \E x \in Poses : \E T \in Bursts :
          /\ syncedObjects = [q \in Peers |->
                IF q # p THEN EmptyMap
                ELSE (Entity :> [object |-> 1, ownerId |-> o, assetIndex |-> Entity[2],
                                 lastUpdate |-> t, isLocallyTracked |-> (o = getLocalId(p))])]
          /\ scene = [q \in Peers |->
                IF q # p THEN EmptyMap
                ELSE (1 :> [imageId |-> Entity, pos |-> Lerp(InitialPos, x)])]
          /\ net = {[m EXCEPT !.to = q] : m \in T, q \in Peers} \cup
                   {[Message(MSG_TRACKED_IMAGE_SPAWN, o, Entity, Entity[2], x, t, "", "", "")
                        EXCEPT !.to = Other(p)]}

NextReorder ==
    \E p \in Peers : \E m \in net : Registered(p, Entity) /\ onReceiveTransform(p, m)

SpecReorder == ReorderInit /\ [][NextReorder]_vars

\* --------------------------------------------------------- a late joiner
\* SpecJoin: A and C are in the room and hold Entity; one of them drives it and
\* the other holds the driver's record, or both drive it after detecting the
\* marker at the same time.  B, which sees no marker, joins.
Joiner == "B"

Residents == Peers \ {Joiner}

JoinInit ==
    /\ Configured
    /\ pending = [p \in Peers |-> {}]
    /\ conn = [p \in Peers |-> IF p = Joiner THEN "idle" ELSE "inRoom"]
    /\ markers = {trackedImages[1]}
    /\ events = 0
    /\ now = StartTime
    /\ net = {}
    /\ last = NoHandler
    /\ \E drivers \in (SUBSET Residents) \ {{}} : \E x \in KnownPositions :
          /\ lastUpdateTime = [p \in Peers |-> IF p \in drivers THEN StartTime ELSE 0]
          /\ syncedObjects = [p \in Peers |->
                IF p = Joiner THEN EmptyMap
                ELSE (Entity :> [object |-> 1,
                                 ownerId |-> IF p \in drivers THEN getLocalId(p)
                                             ELSE CHOOSE d \in drivers : TRUE,
                                 assetIndex |-> Entity[2],
                                 lastUpdate |-> StartTime,
                                 isLocallyTracked |-> (p \in drivers)])]
          /\ scene = [p \in Peers |->
                IF p = Joiner THEN EmptyMap ELSE (1 :> [imageId |-> Entity, pos |-> x])]

NextJoin ==
    \/ \E p \in Peers : onUserJoined(p)
    \/ \E p \in Peers : \E m \in net : onReceiveStateRequest(p, m)
    \/ \E p \in Peers : \E m \in net : onReceiveStateResponse(p, m)
    \/ \E p \in Peers : \E m \in pending[p] : LoadComplete(p, m)

SpecJoin == JoinInit /\ [][NextJoin]_vars

\* ------------------------------------------------- simultaneous spawns
\* SpecSpawn: two or three peers detected the same marker and each sent a Spawn
\* for Entity, with pairwise distinct timestamps; the sender's throttle clock
\* holds the time of its send (l.277, 305).  One peer has received the Spawn of
\* FirstSender and awaits its asset load; the other Spawns are in flight to it.
FirstSender == "A"

SpawnSenders == {s \in Peers : lastUpdateTime[s] > 0}

SpawnSent(s) ==
    Message(MSG_TRACKED_IMAGE_SPAWN, s, Entity, Entity[2], CHOOSE x \in Poses : TRUE,
            lastUpdateTime[s], "", "", "")

SpawnInit ==
    /\ Configured
    /\ syncedObjects = [p \in Peers |-> EmptyMap]
    /\ scene = [p \in Peers |-> EmptyMap]
    /\ conn = [p \in Peers |-> "inRoom"]
    /\ markers = {trackedImages[1]}
    /\ events = 0
    /\ last = NoHandler
    /\ lastUpdateTime \in {f \in [Peers -> Stamps \cup {0}] :
            /\ f[FirstSender] > 0
            /\ \E s \in Peers \ {FirstSender} : f[s] > 0
            /\ \A s, t \in Peers : (f[s] > 0 /\ f[s] = f[t]) => s = t}
    /\ now = CHOOSE t \in Stamps : \A s \in Peers : lastUpdateTime[s] <= t
    /\ \E p \in Peers :
          /\ pending = [q \in Peers |->
                IF q = p THEN {SpawnOf(SpawnSent(FirstSender))} ELSE {}]
          /\ net = {[SpawnSent(s) EXCEPT !.to = p] : s \in SpawnSenders \ {FirstSender}}

NextSpawn ==
    \/ \E p \in Peers : \E m \in net : onReceiveSpawn(p, m)
    \/ \E p \in Peers : \E m \in pending[p] : LoadComplete(p, m)

SpecSpawn == SpawnInit /\ [][NextSpawn]_vars

\* ------------------------------------------- simultaneous detection
\* SpecConverge: A and B see the same marker and each has just sent its Spawn
\* (the four copies are in flight).  When those messages and loads have
\* settled, A and then B handle one more detection event of the marker, and
\* the messages of that round are delivered.
Detectors == {"A", "B"}

Clock == {t \in Stamps : t <= MaxTime}

Turn == IF events = 2 THEN "A" ELSE "B"

Settled == net = {} /\ \A p \in Peers : pending[p] = {}

ConvergeInit ==
    /\ Configured
    /\ syncedObjects = [p \in Peers |-> EmptyMap]
    /\ scene = [p \in Peers |-> EmptyMap]
    /\ pending = [p \in Peers |-> {}]
    /\ conn = [p \in Peers |-> IF p \in Detectors THEN "inRoom" ELSE "absent"]
    /\ markers = {trackedImages[1]}
    /\ events = 2
    /\ last = NoHandler
    /\ lastUpdateTime \in {f \in [Peers -> Clock \cup {0}] :
                              \A p \in Peers : f[p] > 0 <=> p \in Detectors}
    /\ now = CHOOSE t \in Clock : \A s \in Peers : lastUpdateTime[s] <= t
    /\ net = {[SpawnSent(s) EXCEPT !.to = q] : s \in Detectors, q \in Detectors}

NextConverge ==
    \/ \E images \in Batches \ {{}} : Settled /\ onImageTrackingUpdate(Turn, images)
    \/ \E p \in Peers : \E m \in net : onReceiveSpawn(p, m)
    \/ \E p \in Peers : \E m \in net : onReceiveTransform(p, m)
    \/ \E p \in Peers : \E m \in net : onReceiveOwnership(p, m)
    \/ \E p \in Peers : \E m \in pending[p] : LoadComplete(p, m)

SpecConverge == ConvergeInit /\ [][NextConverge]_vars

\* ------------------------------------------------- one detection event
\* SpecDetect: a peer alone in the room, whose registry holds each of the two
\* entities or not, in any of the states the protocol leaves a record in,
\* handles one detection event.
RecordStates(p, id) ==
    {[object |-> id[2] + 1, ownerId |-> ol[1], assetIndex |-> id[2],
      lastUpdate |-> StartTime, isLocallyTracked |-> ol[2]] :
        ol \in {c \in (Peers \cup {""}) \X BOOLEAN : c[2] => c[1] \in {getLocalId(p), ""}}}

Registries(p) ==
    UNION {{f \in [ids -> UNION {RecordStates(p, id) : id \in ids}] :
               \A id \in ids : f[id] \in RecordStates(p, id)} : ids \in SUBSET ImageIds}

DetectInit ==
    /\ imageTracking = [p \in Peers |-> TRUE]
    /\ sandboxRoot = [p \in Peers |-> TRUE]
    /\ hasPlaced \in {[p \in Peers |-> b] : b \in BOOLEAN}
    /\ assets = [p \in Peers |-> [i \in AssetIndices |-> "ok"]]
    /\ lifecycle = [p \in Peers |-> "enabled"]
    /\ pending = [p \in Peers |-> {}]
    /\ markers = Models
    /\ events = 1
    /\ net = {}
    /\ last = NoHandler
    /\ now \in Clock
    /\ \E p \in Peers : \E reg \in Registries(p) : \E t \in {0} \cup {c \in Clock : c <= now} :
          /\ conn = [q \in Peers |-> IF q = p THEN "inRoom" ELSE "absent"]
          /\ lastUpdateTime = [q \in Peers |-> IF q = p THEN t ELSE 0]
          /\ syncedObjects = [q \in Peers |-> IF q = p THEN reg ELSE EmptyMap]
          /\ scene = [q \in Peers |->
                IF q # p THEN EmptyMap
                ELSE [h \in {reg[id].object : id \in DOMAIN reg} |->
                        [imageId |-> <<"tracked_image", h - 1>>,
                         pos |-> Lerp(InitialPos, CHOOSE x \in Poses : TRUE)]]]

NextDetect == \E p \in Peers : \E images \in Batches : onImageTrackingUpdate(p, images)

SpecDetect == DetectInit /\ [][NextDetect]_vars

\* ----------------------------------------------------------- teardown
\* SpecTeardown: a peer alone in the room, with any registry of the two
\* entities and possibly an asset load still awaited, is disabled, enabled
\* again or destroyed; a load settles whenever it does.
TeardownInit ==
    /\ Configured
    /\ markers = Models
    /\ events = 0
    /\ net = {}
    /\ last = NoHandler
    /\ now = StartTime
    /\ \E p \in Peers : \E reg \in Registries(p) :
        \E loads \in {{}} \cup {{SpawnOf(Message(MSG_TRACKED_IMAGE_SPAWN, s, Entity, Entity[2],
                                                 CHOOSE x \in Poses : TRUE, StartTime,
                                                 "", "", ""))} : s \in Peers} :
          /\ Entity \in DOMAIN reg => loads = {}
          /\ conn = [q \in Peers |-> IF q = p THEN "inRoom" ELSE "absent"]
          /\ lastUpdateTime = [q \in Peers |-> IF q = p THEN StartTime ELSE 0]
          /\ pending = [q \in Peers |-> IF q = p THEN loads ELSE {}]
          /\ syncedObjects = [q \in Peers |-> IF q = p THEN reg ELSE EmptyMap]
          /\ scene = [q \in Peers |->
                IF q # p THEN EmptyMap
                ELSE [h \in {reg[id].object : id \in DOMAIN reg} |->
                        [imageId |-> <<"tracked_image", h - 1>>,
                         pos |-> Lerp(InitialPos, CHOOSE x \in Poses : TRUE)]]]

NextTeardown ==
    \/ \E p \in Peers : onDisable(p)
    \/ \E p \in Peers : onEnable(p)
    \/ \E p \in Peers : onDestroy(p)
    \/ \E p \in Peers : \E m \in net : onReceiveDespawn(p, m)
    \/ \E p \in Peers : \E m \in pending[p] : LoadComplete(p, m)

SpecTeardown == TeardownInit /\ [][NextTeardown]_vars

\* ------------------------------------------------ the lifetime of a record
\* SpecLifetime: peer Holder is alone in the room after peer Neighbour was
\* there, its registry empty or holding Entity in any state, possibly with an
\* asset load pending, and is handed one message that names the two of them, or
\* none and a detection event is about to come; or it is fresh and about to
\* join.  Then every handler of its component can run: detection events, the
\* receivers, the join, load completions and the lifecycle callbacks.
Holder == "A"

Neighbour == "B"

Named == {Holder, Neighbour, ""}

EntityRegistries(p) ==
    {reg \in Registries(p) :
        DOMAIN reg \subseteq {Entity} /\ \A id \in DOMAIN reg : reg[id].ownerId \in Named}

LifetimeIncoming ==
    {m \in Incoming : /\ m.timestamp \in {0, StartTime}
                      /\ {m.senderId, m.targetId, m.ownerId} \subseteq Named}

LifetimeInit ==
    /\ Configured
    /\ markers = Models
    /\ last = NoHandler
    /\ now = StartTime
    /\ \E reg \in EntityRegistries(Holder) : \E c \in {"idle", "inRoom"} :
        \E loads \in {{}} \cup {{SpawnOf(Message(MSG_TRACKED_IMAGE_SPAWN, s, Entity, Entity[2],
                                                 CHOOSE x \in Poses : TRUE, StartTime,
                                                 "", "", ""))} : s \in Named \ {""}} :
          /\ Entity \in DOMAIN reg => loads = {}
          /\ net \in {{}} \cup {{[m EXCEPT !.to = Holder]} : m \in LifetimeIncoming}
          /\ c = "idle" => reg = EmptyMap /\ loads = {} /\ net = {}
          /\ events = IF net = {} THEN 1 ELSE 0
          /\ conn = [q \in Peers |-> IF q = Holder THEN c ELSE "absent"]
          /\ lastUpdateTime = [q \in Peers |-> IF q = Holder /\ c = "inRoom" THEN StartTime ELSE 0]
          /\ pending = [q \in Peers |-> IF q = Holder THEN loads ELSE {}]
          /\ syncedObjects = [q \in Peers |-> IF q = Holder THEN reg ELSE EmptyMap]
          /\ scene = [q \in Peers |->
                IF q # Holder THEN EmptyMap
                ELSE [h \in {reg[id].object : id \in DOMAIN reg} |->
                        [imageId |-> <<"tracked_image", h - 1>>,
                         pos |-> Lerp(InitialPos, CHOOSE x \in Poses : TRUE)]]]

NextLifetime ==
    \/ \E p \in Peers : onUserJoined(p)
    \/ \E p \in Peers : \E images \in Batches : onImageTrackingUpdate(p, images)
    \/ \E p \in Peers : \E m \in net : onReceiveSpawn(p, m)
    \/ \E p \in Peers : \E m \in net : onReceiveTransform(p, m)
    \/ \E p \in Peers : \E m \in net : onReceiveDespawn(p, m)
    \/ \E p \in Peers : \E m \in net : onReceiveOwnership(p, m)
    \/ \E p \in Peers : \E m \in net : onReceiveStateRequest(p, m)
    \/ \E p \in Peers : \E m \in net : onReceiveStateResponse(p, m)
    \/ \E p \in Peers : \E m \in net : onUserLeft(p, m)
    \/ \E p \in Peers : \E m \in pending[p] : LoadComplete(p, m)
    \/ \E p \in Peers : conn[p] # "absent" /\ onDisable(p)
    \/ \E p \in Peers : conn[p] # "absent" /\ onEnable(p)
    \/ \E p \in Peers : conn[p] # "absent" /\ onDestroy(p)

SpecLifetime == LifetimeInit /\ [][NextLifetime]_vars

\* ------------------------------------------------------ the state snapshot
\* SpecSnapshot: every peer is in the room; one of them, its registry of two
\* entities in any state, receives the StateRequest of any peer.  Its
\* StateResponses go to the whole room, where the other registries are empty.
SnapshotInit ==
    /\ Configured
    /\ markers = Models
    /\ events = 0
    /\ last = NoHandler
    /\ now = StartTime
    /\ conn = [q \in Peers |-> "inRoom"]
    /\ lastUpdateTime = [q \in Peers |-> 0]
    /\ pending = [q \in Peers |-> {}]
    /\ \E p \in Peers : \E reg \in Registries(p) : \E r \in Peers :
          /\ net = {[Message(MSG_TRACKED_IMAGE_STATE_REQUEST, r, NoId, -1, 0, 0, "", "", "")
                        EXCEPT !.to = p]}
          /\ syncedObjects = [q \in Peers |-> IF q = p THEN reg ELSE EmptyMap]
          /\ scene = [q \in Peers |->
                IF q # p THEN EmptyMap
                ELSE [h \in {reg[id].object : id \in DOMAIN reg} |->
                        [imageId |-> <<"tracked_image", h - 1>>,
                         pos |-> Lerp(InitialPos, CHOOSE x \in Poses : TRUE)]]]

NextSnapshot ==
    \/ \E p \in Peers : \E m \in net : onReceiveStateRequest(p, m)
    \/ \E p \in Peers : \E m \in net : onReceiveStateResponse(p, m)
    \/ \E p \in Peers : \E m \in pending[p] : LoadComplete(p, m)

SpecSnapshot == SnapshotInit /\ [][NextSnapshot]_vars

\* ------------------------------------------------- a missing reference
\* SpecConfig: the component of peer Holder lacks its imageTracking or its
\* sandboxRoot reference (or both).  It is alone in the room with an empty
\* registry and is handed one message, or none and a detection event is about
\* to come; or it is about to join.
ConfigInit ==
    /\ \E it, sr \in BOOLEAN :
          /\ ~(it /\ sr)
          /\ imageTracking = [q \in Peers |-> q # Holder \/ it]
          /\ sandboxRoot = [q \in Peers |-> q # Holder \/ sr]
    /\ hasPlaced = [q \in Peers |-> TRUE]
    /\ assets = [q \in Peers |-> [i \in AssetIndices |-> "ok"]]
    /\ lifecycle = [q \in Peers |-> "enabled"]
    /\ markers = Models
    /\ syncedObjects = [q \in Peers |-> EmptyMap]
    /\ scene = [q \in Peers |-> EmptyMap]
    /\ pending = [q \in Peers |-> {}]
    /\ lastUpdateTime = [q \in Peers |-> 0]
    /\ now = StartTime
    /\ last = NoHandler
    /\ \E c \in {"idle", "inRoom"} :
          /\ conn = [q \in Peers |-> IF q = Holder THEN c ELSE "absent"]
          /\ net \in {{}} \cup {{[m EXCEPT !.to = Holder]} : m \in LifetimeIncoming}
          /\ c = "idle" => net = {}
          /\ events = IF net = {} THEN 1 ELSE 0

NextConfig ==
    \/ \E p \in Peers : onUserJoined(p)
    \/ \E p \in Peers : \E images \in Batches : onImageTrackingUpdate(p, images)
    \/ \E p \in Peers : \E m \in net : onReceiveSpawn(p, m)
    \/ \E p \in Peers : \E m \in net : onReceiveTransform(p, m)
    \/ \E p \in Peers : \E m \in net : onReceiveDespawn(p, m)
    \/ \E p \in Peers : \E m \in net : onReceiveOwnership(p, m)
    \/ \E p \in Peers : \E m \in net : onReceiveStateRequest(p, m)
    \/ \E p \in Peers : \E m \in net : onReceiveStateResponse(p, m)
    \/ \E p \in Peers : \E m \in net : onUserLeft(p, m)
    \/ \E p \in Peers : \E m \in pending[p] : LoadComplete(p, m)

SpecConfig == ConfigInit /\ [][NextConfig]_vars

\* ---------------------------------------------------------- asset errors
\* SpecAsset: each asset of peer Holder is there, missing, loads to nothing or
\* fails to load.  Holder, its registry empty or holding Entity in any state,
\* receives a Spawn or a StateResponse that names any asset index, also one
\* outside the configured models.
AssetStates == {"ok", "none", "null", "throws"}

NamedIndices == AssetIndices \cup {-1, Len(trackedImages)}

AssetIncoming ==
    {Message(MSG_TRACKED_IMAGE_SPAWN, s, id, i, CHOOSE x \in Poses : TRUE, StartTime,
             "", "", "") : s \in Named \ {""}, id \in ImageIds, i \in NamedIndices} \cup
    {Message(MSG_TRACKED_IMAGE_STATE_RESPONSE, "", id, i, CHOOSE x \in Poses : TRUE,
             StartTime, "", g, o) :
        id \in ImageIds, i \in NamedIndices, g \in {"", Holder}, o \in Named \ {""}}

AssetInit ==
    /\ imageTracking = [q \in Peers |-> TRUE]
    /\ sandboxRoot = [q \in Peers |-> TRUE]
    /\ hasPlaced = [q \in Peers |-> TRUE]
    /\ \E a \in [AssetIndices -> AssetStates] :
          assets = [q \in Peers |-> IF q = Holder THEN a ELSE [i \in AssetIndices |-> "ok"]]
    /\ lifecycle = [q \in Peers |-> "enabled"]
    /\ markers = Models
    /\ events = 0
    /\ now = StartTime
    /\ last = NoHandler
    /\ conn = [q \in Peers |-> IF q = Holder THEN "inRoom" ELSE "absent"]
    /\ lastUpdateTime = [q \in Peers |-> 0]
    /\ pending = [q \in Peers |-> {}]
    /\ \E reg \in EntityRegistries(Holder) : \E m \in AssetIncoming :
          /\ net = {[m EXCEPT !.to = Holder]}
          /\ syncedObjects = [q \in Peers |-> IF q = Holder THEN reg ELSE EmptyMap]
          /\ scene = [q \in Peers |->
                IF q # Holder THEN EmptyMap
                ELSE [h \in {reg[id].object : id \in DOMAIN reg} |->
                        [imageId |-> <<"tracked_image", h - 1>>,
                         pos |-> Lerp(InitialPos, CHOOSE x \in Poses : TRUE)]]]

NextAsset ==
    \/ \E p \in Peers : \E m \in net : onReceiveSpawn(p, m)
    \/ \E p \in Peers : \E m \in net : onReceiveStateResponse(p, m)
    \/ \E p \in Peers : \E m \in pending[p] : LoadComplete(p, m)

SpecAsset == AssetInit /\ [][NextAsset]_vars

\* ------------------------------------------- the owner loses tracking
\* SpecRelease: Driver drove an entity and lost it: checkForLostTracking sent
\* the release and the Despawn and removed Driver's record.  Observer holds the
\* record with Driver as owner, its other record in any state, and the two
\* messages are delivered to it in any order.
Driver == "A"

Observer == "B"

ReleaseInit ==
    /\ Configured
    /\ markers = Models
    /\ events = 0
    /\ last = NoHandler
    /\ conn = [q \in Peers |-> IF q \in {Driver, Observer} THEN "inRoom" ELSE "absent"]
    /\ pending = [q \in Peers |-> {}]
    /\ \E id \in ImageIds : \E reg \in Registries(Observer) : \E t \in Stamps :
          /\ id \in DOMAIN reg
          /\ reg[id].ownerId = getLocalId(Driver)
          /\ ~reg[id].isLocallyTracked
          /\ t >= reg[id].lastUpdate
          /\ now = t
          /\ lastUpdateTime = [q \in Peers |-> IF q = Driver THEN t ELSE 0]
          /\ net = {[Message(MSG_TRACKED_IMAGE_OWNERSHIP, getLocalId(Driver), id, -1, 0, t,
                             "release", "", "") EXCEPT !.to = Observer],
                    [Message(MSG_TRACKED_IMAGE_DESPAWN, getLocalId(Driver), id, -1, 0, t,
                             "", "", "") EXCEPT !.to = Observer]}
          /\ syncedObjects = [q \in Peers |-> IF q = Observer THEN reg ELSE EmptyMap]
          /\ scene = [q \in Peers |->
                IF q # Observer THEN EmptyMap
                ELSE [h \in {reg[i].object : i \in DOMAIN reg} |->
                        [imageId |-> <<"tracked_image", h - 1>>,
                         pos |-> Lerp(InitialPos, CHOOSE x \in Poses : TRUE)]]]

NextRelease ==
    \/ \E p \in Peers : \E m \in net : onReceiveOwnership(p, m)
    \/ \E p \in Peers : \E m \in net : onReceiveDespawn(p, m)

SpecRelease == ReleaseInit /\ [][NextRelease]_vars

\* -------------------------------------------------------------- properties
\* C3: on every peer, the lastUpdate of a registry record never decreases while
\* the record exists, whichever handler or load completion ran last.
C3_LastUpdateNeverDecreases ==
    last.peer \in Peers =>
        \A id \in (DOMAIN last.reg) \cap (DOMAIN syncedObjects[last.peer]) :
            syncedObjects[last.peer][id].lastUpdate >= last.reg[id].lastUpdate

\* C4: every registry record with isLocallyTracked has ownerId equal to the
\* local peer id.
C4_LocallyTrackedIsOwned ==
    \A p \in Peers : \A id \in DOMAIN syncedObjects[p] :
        syncedObjects[p][id].isLocallyTracked => syncedObjects[p][id].ownerId = getLocalId(p)

\* C5: across the peers of the room, at most one peer has a record of a given
\* entity with isLocallyTracked.
C5_AtMostOneDriver ==
    \A id \in ImageIds : Cardinality({p \in InRoom : Drives(p, id)}) <= 1

\* what the handler that ran last saw and left, on its peer
Pre == last.reg

PreScene == last.scn

Post == syncedObjects[last.peer]

PostScene == scene[last.peer]

Handled(op) == last.op = op /\ last.peer \in Peers

\* C1: a received Transform from sender P is applied (the pose target applied to
\* the instance, lastUpdate set to the message timestamp) iff the entity is
\* registered, P is the stored owner, it is not the local peer's own message for
\* an entity it tracks locally, and the timestamp is not older than lastUpdate;
\* in every other case registry and scene are left as they were.
TransformAccepted ==
    /\ last.msg.imageId \in DOMAIN Pre
    /\ last.msg.senderId = Pre[last.msg.imageId].ownerId
    /\ ~(last.msg.senderId = getLocalId(last.peer) /\ Pre[last.msg.imageId].isLocallyTracked)
    /\ last.msg.timestamp >= Pre[last.msg.imageId].lastUpdate

C1_TransformAcceptance ==
    Handled("transform") =>
        IF TransformAccepted
        THEN /\ Post = [Pre EXCEPT ![last.msg.imageId].lastUpdate = last.msg.timestamp]
             /\ PostScene = [PreScene EXCEPT ![Pre[last.msg.imageId].object].pos =
                                Lerp(@, last.msg.relativePosition)]
        ELSE Post = Pre /\ PostScene = PreScene

C1_Witness ==
    /\ Handled("transform")
    /\ TransformAccepted
    /\ Post[last.msg.imageId].lastUpdate > Pre[last.msg.imageId].lastUpdate
    /\ PostScene # PreScene

\* C2: Transform messages of the owner delivered in any order: none with a
\* timestamp older than the current lastUpdate is applied, and once the whole
\* burst is delivered lastUpdate is the largest timestamp among the owner's
\* acceptable messages (the creation timestamp when there is none), whatever the
\* order was.
Max(S) == CHOOSE x \in S : \A y \in S : y <= x

BurstLeft(p) == {m \in net : m.to = p /\ m.type = MSG_TRACKED_IMAGE_TRANSFORM}

Creation(p) == CHOOSE m \in net : m.to = Other(p) /\ m.type = MSG_TRACKED_IMAGE_SPAWN

Acceptable(p) ==
    {m \in BurstLeft(Other(p)) :
        /\ m.senderId = syncedObjects[p][Entity].ownerId
        /\ ~(m.senderId = getLocalId(p) /\ syncedObjects[p][Entity].isLocallyTracked)
        /\ m.timestamp >= Creation(p).timestamp}

C2_ReorderedTransforms ==
    /\ (Handled("transform") /\ Post # Pre) =>
            last.msg.timestamp >= Pre[last.msg.imageId].lastUpdate
    /\ \A p \in Peers : (Registered(p, Entity) /\ BurstLeft(p) = {}) =>
            syncedObjects[p][Entity].lastUpdate =
                IF Acceptable(p) = {} THEN Creation(p).timestamp
                ELSE Max({m.timestamp : m \in Acceptable(p)})

C2_Witness ==
    /\ Handled("transform")
    /\ BurstLeft(last.peer) = {}
    /\ Cardinality(Acceptable(last.peer)) >= 2
    /\ last.msg \in {[m EXCEPT !.to = last.peer] : m \in Acceptable(last.peer)}
    /\ last.msg.timestamp < Post[Entity].lastUpdate
    /\ Post[Entity].lastUpdate = Max({m.timestamp : m \in Acceptable(last.peer)})

\* C6: an Ownership request from P for a registered entity makes P the owner
\* (isLocallyTracked = (P is the local peer)) unless the local peer is the
\* locally tracking owner, in which case the record is unchanged; lastUpdate,
\* the rest of the record and the scene are unchanged in both cases.
IsRequest == Handled("ownership") /\ last.msg.action = "request" /\ last.msg.imageId \in DOMAIN Pre

C6_OwnershipRequest ==
    IsRequest =>
        LET id == last.msg.imageId
            exclusive == Pre[id].isLocallyTracked /\ Pre[id].ownerId = getLocalId(last.peer)
        IN  /\ PostScene = PreScene
            /\ IF exclusive THEN Post = Pre
               ELSE Post = [Pre EXCEPT ![id].ownerId = last.msg.senderId,
                                       ![id].isLocallyTracked =
                                            (last.msg.senderId = getLocalId(last.peer))]

C6_Witness ==
    /\ IsRequest
    /\ Pre[last.msg.imageId].ownerId # last.msg.senderId
    /\ Post[last.msg.imageId].ownerId = last.msg.senderId

\* C7: an Ownership release from P clears the stored ownerId only if the stored
\* ownerId is P; a release from anyone else leaves registry and scene unchanged.
IsRelease == Handled("ownership") /\ last.msg.action = "release"

C7_StaleReleaseIgnored ==
    IsRelease =>
        /\ PostScene = PreScene
        /\ IF last.msg.imageId \in DOMAIN Pre /\ Pre[last.msg.imageId].ownerId = last.msg.senderId
           THEN Post = [Pre EXCEPT ![last.msg.imageId].ownerId = ""]
           ELSE Post = Pre

C7_Witness ==
    /\ IsRelease
    /\ last.msg.imageId \in DOMAIN Pre
    /\ Pre[last.msg.imageId].ownerId \in Peers \ {last.msg.senderId}
    /\ Post = Pre

\* C8: a Despawn from P removes the entity (record deleted, its instance
\* destroyed) iff a record exists and its stored ownerId is P; otherwise
\* registry and scene are unchanged.
C8_DespawnByOwnerOnly ==
    Handled("despawn") =>
        IF last.msg.imageId \in DOMAIN Pre /\ Pre[last.msg.imageId].ownerId = last.msg.senderId
        THEN /\ Post = MapDelete(Pre, last.msg.imageId)
             /\ PostScene = MapDelete(PreScene, Pre[last.msg.imageId].object)
        ELSE Post = Pre /\ PostScene = PreScene

C8_Witness ==
    /\ Handled("despawn")
    /\ last.msg.imageId \in DOMAIN Pre
    /\ last.msg.imageId \notin DOMAIN Post
    /\ PostScene = EmptyMap

\* C9: when a peer that locally drives an entity has left and a remaining peer
\* has handled the peer-left notification, that peer has no record of the
\* entity, no live instance of it, and no load of the leaver's entity pending.
InstancesOf(p, id) == {h \in DOMAIN scene[p] : scene[p][h].imageId = id}

C9_DepartureRemovesEntity ==
    Handled("user-left") =>
        \A id \in ImageIds :
            (conn[last.msg.senderId] = "left" /\ Drives(last.msg.senderId, id)) =>
                /\ ~Registered(last.peer, id)
                /\ InstancesOf(last.peer, id) = {}
                /\ \A m \in pending[last.peer] :
                      ~(m.imageId = id /\ m.senderId = last.msg.senderId)

\* C10: a late joiner B that never detected the marker itself, has handled every
\* StateResponse addressed to it and has settled its loads, the last one that of
\* a StateResponse naming a peer A that drives the entity, holds one record of
\* the entity, owned by A, and exactly one live instance of it.
C10_LateJoinOneEntry ==
    (/\ Handled("load")
     /\ last.msg.action = MSG_TRACKED_IMAGE_STATE_RESPONSE
     /\ last.msg.senderId \in Peers \ {last.peer}
     /\ Drives(last.msg.senderId, last.msg.imageId)
     /\ conn[last.msg.senderId] = "inRoom"
     /\ lastUpdateTime[last.peer] = 0
     /\ pending[last.peer] = {}
     /\ \A m \in net : ~(m.to = last.peer /\ m.type = MSG_TRACKED_IMAGE_STATE_RESPONSE)) =>
        /\ Registered(last.peer, last.msg.imageId)
        /\ syncedObjects[last.peer][last.msg.imageId].ownerId = last.msg.senderId
        /\ Cardinality(InstancesOf(last.peer, last.msg.imageId)) = 1

\* the peer has handled every Spawn sent to it and all its loads have settled
SpawnsSettled(p) ==
    /\ Registered(p, Entity)
    /\ pending[p] = {}
    /\ \A m \in net : m.to # p

\* C11: two peers sent Spawn for the same id with timestamps T1 < T2; a peer that
\* has received both, in either order, ends up with ownerId = the sender of the
\* Spawn it received first.
C11_FirstReceivedSpawnOwns ==
    \A p \in Peers :
        (SpawnsSettled(p) /\ Cardinality(SpawnSenders) = 2) =>
            syncedObjects[p][Entity].ownerId = FirstSender

\* C13: after a peer has processed Spawns for the same id from different senders
\* with distinct timestamps, in any delivery order, the stored ownerId is the
\* sender of the Spawn with the smallest timestamp.
EarliestSender ==
    CHOOSE s \in SpawnSenders : \A t \in SpawnSenders : lastUpdateTime[s] <= lastUpdateTime[t]

C13_EarliestSpawnOwns ==
    \A p \in Peers :
        SpawnsSettled(p) => syncedObjects[p][Entity].ownerId = EarliestSender

\* C12: two peers that keep detecting the same marker have both sent Spawn for
\* it; once those messages, one further detection event on each peer and the
\* messages of that round are delivered, every peer records the same ownerId
\* for the entity and at most one of them has isLocallyTracked.
C12_ConvergesAfterOneRound ==
    (events = 0 /\ Settled) =>
        /\ \A p, q \in Detectors :
              /\ Registered(p, Entity)
              /\ Registered(q, Entity)
              /\ syncedObjects[p][Entity].ownerId = syncedObjects[q][Entity].ownerId
        /\ Cardinality({p \in Detectors : Drives(p, Entity)}) <= 1

\* the entity ids of the images of the detection event handled last
DetectedIds == {getImageId(last.peer, image) : image \in last.images}

Sent(type, id) == {i \in DOMAIN last.sent : last.sent[i].type = type /\ last.sent[i].imageId = id}

\* C14: a detection event handled while canSync() holds, with a locally tracked
\* entity not among its detected images (the empty batch included), sends the
\* Ownership release and then the Despawn for that entity and removes its record
\* and instance within the handler.
C14_LostTrackingReleases ==
    (Handled("image-tracking") /\ canSync(last.peer)) =>
        \A id \in DOMAIN Pre :
            (Pre[id].isLocallyTracked /\ id \notin DetectedIds) =>
                /\ \E i \in Sent(MSG_TRACKED_IMAGE_OWNERSHIP, id) :
                      /\ last.sent[i].action = "release"
                      /\ \E j \in Sent(MSG_TRACKED_IMAGE_DESPAWN, id) : i < j
                /\ id \notin DOMAIN Post
                /\ Pre[id].object \notin DOMAIN PostScene

\* C15: a detection event handled while canSync() holds, with an image whose id
\* has no record, sends a Spawn for it and leaves the entity registered with
\* ownerId = the local peer and isLocallyTracked.
C15_SpawnEntersOwnedLocal ==
    (Handled("image-tracking") /\ canSync(last.peer)) =>
        \A id \in DetectedIds \ DOMAIN Pre :
            /\ Sent(MSG_TRACKED_IMAGE_SPAWN, id) # {}
            /\ id \in DOMAIN Post
            /\ Post[id].ownerId = getLocalId(last.peer)
            /\ Post[id].isLocallyTracked

\* C19: a detection handler run sends Transforms only if at least updateInterval
\* has passed since lastUpdateTime; it then sends exactly one Transform for every
\* locally tracked entity of the batch, none for any other, and sets
\* lastUpdateTime to now (so two runs that send Transforms are at least
\* updateInterval apart); otherwise lastUpdateTime is unchanged.  A record whose
\* Transform is sent is unchanged.
Throttled == now - last.lut < updateInterval

C19_SharedThrottle ==
    (Handled("image-tracking") /\ canSync(last.peer) /\ last.images # {}) =>
        /\ \A id \in ImageIds :
              Cardinality(Sent(MSG_TRACKED_IMAGE_TRANSFORM, id)) =
                  IF /\ ~Throttled
                     /\ id \in DetectedIds \cap DOMAIN Pre
                     /\ Pre[id].isLocallyTracked
                  THEN 1 ELSE 0
        /\ lastUpdateTime[last.peer] = IF Throttled THEN last.lut ELSE now
        /\ \A id \in ImageIds :
              Sent(MSG_TRACKED_IMAGE_TRANSFORM, id) # {} =>
                  (id \in DOMAIN Post /\ Post[id] = Pre[id])

C19_Witness ==
    /\ Handled("image-tracking")
    /\ \A id \in ImageIds : Sent(MSG_TRACKED_IMAGE_TRANSFORM, id) # {}
    /\ last.lut > 0
    /\ lastUpdateTime[last.peer] = last.lut + updateInterval

\* C16: onDisable sends a Despawn for every locally tracked entity, releases
\* every registry entry (instance destroyed, registry emptied) and only then
\* unsubscribes the handlers; after teardown no registry entry and no live
\* instance remains.
C16_TeardownOrder ==
    /\ Handled("disable") =>
          /\ \A id \in DOMAIN Pre :
                Pre[id].isLocallyTracked =>
                    \E i, j \in DOMAIN last.sent :
                        /\ last.sent[i].type = MSG_TRACKED_IMAGE_DESPAWN
                        /\ last.sent[i].imageId = id
                        /\ last.sent[j] = StopListen
                        /\ i < j
          /\ Post = EmptyMap
          /\ PostScene = EmptyMap
    /\ \A p \in Peers :
          lifecycle[p] = "destroyed" => (syncedObjects[p] = EmptyMap /\ scene[p] = EmptyMap)

\* C17: a Spawn or StateResponse for an id whose asset load is pending on the
\* peer starts no second creation, and a peer never holds more than one live
\* instance of an id.
C17_NoSecondCreation ==
    /\ ((Handled("spawn") \/ Handled("state-response")) /\
        (\E m \in last.pend : m.imageId = last.msg.imageId)) =>
            pending[last.peer] = last.pend
    /\ \A p \in Peers : \A id \in ImageIds : Cardinality(InstancesOf(p, id)) <= 1

\* C18: a Spawn for an id that has a record makes the sender the owner
\* (isLocallyTracked = (sender is the local peer)) if its timestamp is strictly
\* less than the stored lastUpdate and changes nothing otherwise; lastUpdate,
\* assetIndex, the instance and its pose are unchanged and no load is started.
IsKnownSpawn == Handled("spawn") /\ last.msg.imageId \in DOMAIN Pre

C18_SpawnForKnownId ==
    IsKnownSpawn =>
        /\ PostScene = PreScene
        /\ pending[last.peer] = last.pend
        /\ Post = IF last.msg.timestamp < Pre[last.msg.imageId].lastUpdate
                  THEN [Pre EXCEPT ![last.msg.imageId].ownerId = last.msg.senderId,
                                   ![last.msg.imageId].isLocallyTracked =
                                        (last.msg.senderId = getLocalId(last.peer))]
                  ELSE Pre

C18_Witness ==
    /\ IsKnownSpawn
    /\ Pre[last.msg.imageId].ownerId # last.msg.senderId
    /\ Post[last.msg.imageId].ownerId = last.msg.senderId
    /\ Post[last.msg.imageId].lastUpdate = Pre[last.msg.imageId].lastUpdate

\* the records the handler run last added to and took from its peer's registry
Created == IF last.peer \in Peers THEN DOMAIN Post \ DOMAIN Pre ELSE {}

Destroyed == IF last.peer \in Peers THEN DOMAIN Pre \ DOMAIN Post ELSE {}

FromSpawnOrSnapshot ==
    /\ Handled("load")
    /\ last.msg.action \in {MSG_TRACKED_IMAGE_SPAWN, MSG_TRACKED_IMAGE_STATE_RESPONSE}
    /\ Created = {last.msg.imageId}

ByAcceptedDespawn ==
    /\ Handled("despawn")
    /\ Destroyed = {last.msg.imageId}
    /\ Pre[last.msg.imageId].ownerId = last.msg.senderId

ByDepartureCleanup ==
    /\ Handled("user-left")
    /\ Destroyed = {id \in DOMAIN Pre : Pre[id].ownerId = last.msg.senderId}

ByLostTracking ==
    /\ Handled("image-tracking")
    /\ last.images # {}
    /\ Destroyed = {id \in DOMAIN Pre :
                       /\ Pre[id].isLocallyTracked
                       /\ id \notin {getImageId(last.peer, img) : img \in last.images}}

ByDestruction == Handled("destroy") /\ Destroyed = DOMAIN Pre

\* C20 (as stated): a record is created only while handling a received Spawn
\* or StateResponse, and destroyed only by an accepted Despawn or by
\* peer-departure cleanup.
C20_CreatedAndDestroyedOnlyByMessages ==
    /\ Created # {} => FromSpawnOrSnapshot
    /\ Destroyed # {} => ByAcceptedDespawn \/ ByDepartureCleanup

\* C20 (amended): a record is created only by the completion of the asset load
\* that a received Spawn or StateResponse started, and destroyed only by an
\* accepted Despawn, by peer-departure cleanup, by the lost-tracking check of a
\* detection event (a locally tracked id missing from a nonempty batch) or by
\* the destruction of the component.
C20_RecordLifetime ==
    /\ Created # {} => FromSpawnOrSnapshot
    /\ Destroyed # {} =>
          ByAcceptedDespawn \/ ByDepartureCleanup \/ ByLostTracking \/ ByDestruction

C20_Witness == Handled("image-tracking") /\ Destroyed # {} /\ ByLostTracking

\* the StateResponses the handler run last sent for entity id
ResponsesFor(id) ==
    {i \in DOMAIN last.sent : /\ last.sent[i].type = MSG_TRACKED_IMAGE_STATE_RESPONSE
                              /\ last.sent[i].imageId = id}

\* C21: a StateRequest of another peer R is answered with exactly one
\* StateResponse per locally tracked record, with targetId R and the stored
\* ownerId, and with none for the other records; a peer's own StateRequest is
\* answered with nothing; a StateResponse addressed to another peer changes
\* nothing on its receiver.
C21_StateSnapshot ==
    /\ (Handled("state-request") /\ last.msg.senderId # getLocalId(last.peer)) =>
          /\ \A i \in DOMAIN last.sent :
                /\ last.sent[i].type = MSG_TRACKED_IMAGE_STATE_RESPONSE
                /\ last.sent[i].imageId \in DOMAIN Pre
                /\ last.sent[i].targetId = last.msg.senderId
                /\ last.sent[i].ownerId = Pre[last.sent[i].imageId].ownerId
          /\ \A id \in DOMAIN Pre :
                Cardinality(ResponsesFor(id)) = IF Pre[id].isLocallyTracked THEN 1 ELSE 0
    /\ (Handled("state-request") /\ last.msg.senderId = getLocalId(last.peer)) =>
          last.sent = <<>>
    /\ (Handled("state-response") /\ last.msg.targetId # ""
            /\ last.msg.targetId # getLocalId(last.peer)) =>
          /\ Post = Pre
          /\ PostScene = PreScene
          /\ pending[last.peer] = last.pend

\* a peer that does not know the entity handles a StateResponse addressed to
\* another peer, after a request was answered for two locally tracked records
C21_Witness ==
    /\ Handled("state-response")
    /\ last.msg.targetId \notin {"", getLocalId(last.peer)}
    /\ last.msg.imageId \notin DOMAIN Pre
    /\ \E p \in Peers : \A id \in ImageIds :
          id \in DOMAIN syncedObjects[p] /\ syncedObjects[p][id].isLocallyTracked

\* C22: a peer whose imageTracking or sandboxRoot reference is unset sends no
\* protocol message and registers no entity.
C22_DisabledFeature ==
    \A p \in Peers : (~imageTracking[p] \/ ~sandboxRoot[p]) =>
        /\ syncedObjects[p] = EmptyMap
        /\ last.peer = p => last.sent = <<>>

\* the asset a message names is missing on the peer that handled it
NoAsset ==
    \/ last.msg.assetIndex \notin AssetIndices
    \/ assets[last.peer][last.msg.assetIndex] = "none"

\* C23: a Spawn or StateResponse that names an asset index without an asset
\* starts no load and changes nothing; a load that fails or yields nothing
\* creates no record and leaves no instance, and the registry is as before.
C23_AssetError ==
    /\ ((Handled("spawn") \/ Handled("state-response")) /\ NoAsset) =>
          /\ Post = Pre
          /\ PostScene = PreScene
          /\ pending[last.peer] = last.pend
    /\ (Handled("load") /\ assets[last.peer][last.msg.assetIndex] \in {"null", "throws"}) =>
          /\ Post = Pre
          /\ PostScene = PreScene

C23_Witness ==
    /\ Handled("load")
    /\ assets[last.peer][last.msg.assetIndex] \in {"null", "throws"}
    /\ Pre # EmptyMap
    /\ last.msg.imageId \notin DOMAIN Post

\* C24: once the release and the Despawn of the owner that lost tracking have
\* both been handled by a peer that held the record, in either order, that
\* peer's registry does not contain the entity.
C24_NoOrphanAfterLoss ==
    (net = {} /\ last.peer \in Peers) => last.msg.imageId \notin DOMAIN Post

\* the records of peer p that reference instance h
RecordsOf(p, h) == {id \in DOMAIN syncedObjects[p] : syncedObjects[p][id].object = h}

\* C25: every live instance of a peer is referenced by exactly one record of
\* its registry (so no two records share an instance and none is leaked by an
\* overwritten record); a removal destroys the instance of the record it
\* removes, and a Despawn for an unregistered id changes nothing.
C25_HandleOwnership ==
    /\ \A p \in Peers : \A h \in DOMAIN scene[p] : Cardinality(RecordsOf(p, h)) = 1
    /\ \A id \in Destroyed : Pre[id].object \notin DOMAIN PostScene
    /\ (Handled("despawn") /\ last.msg.imageId \notin DOMAIN Pre) =>
          (Post = Pre /\ PostScene = PreScene)

====
